---- MODULE Spec2Model ----
(***************************************************************************)
(* Model of simpleai/machine_learning/reinforcement_learning.py:           *)
(* the tabular learners (QLearner, TD_QLearner, SARSA_Learner), the two    *)
(* exploration functions and the exponential temperature schedule.         *)
(*                                                                         *)
(* Numbers.  Utilities are fixed-point integers in units of 1/Scale.       *)
(* Temperatures and learning rates are exact rationals                     *)
(* num / (den * 2^exp); the schedule's alpha is given in units of ln 2, so *)
(* that exp(n * alpha) = 2^(alpha * n).  Within the bounds below every     *)
(* product and quotient of the learner is exact.                           *)
(***************************************************************************)
EXTENDS Integers, Sequences, FiniteSets, TLC

VARIABLES
    kind,          \* which concrete class the learner is: "TD" or "SARSA"
    schedule,      \* arguments of make_exponential_temperature
    Q,             \* self.Q: utilities, fixed point; 0 where no key exists
    Qkeys,         \* the action keys present in each self.Q[state]
    counter,       \* self.counter
    last_state,    \* self.last_state
    last_action,   \* self.last_action
    last_reward,   \* self.last_reward: <<>> is None, <<r>> is the reward r
    trials,        \* self.trials
    last_call,     \* history: the call that produced this state
    stepsFrom,     \* history: step calls made while (s, a) was the stored pair
    terminals,     \* history: set_reward calls made with terminal=True
    calls,         \* history: calls made so far
    temp,          \* two evaluations of the temperature schedule
    boltz,         \* one call of boltzmann_exploration
    aln            \* one call of at_least_n_times_exploration

learnerVars == <<kind, schedule, Q, Qkeys, counter, last_state, last_action,
                 last_reward, trials, last_call, stepsFrom, terminals, calls>>
vars == <<kind, schedule, Q, Qkeys, counter, last_state, last_action,
          last_reward, trials, last_call, stepsFrom, terminals, calls,
          temp, boltz, aln>>

----------------------------------------------------------------------------
(* Bounds and the environment the learner is driven by. *)

MaxCalls == 6
ScaleBits == 16

None == "None"
States == {"s1", "s2", "sT"}
ActionNames == {"a1", "a2"}
StateKeys == States \cup {None}
ActKeys == ActionNames \cup {None}
Rewards == {1, 2}
Idle == [op |-> "idle"]

RECURSIVE Pow2(_)
Pow2(n) == IF n <= 0 THEN 1 ELSE 2 * Pow2(n - 1)

Scale == Pow2(ScaleBits)

\* round to nearest
RoundDiv(a, b) == (2 * a + b) \div (2 * b)

Min2(a, b) == IF a <= b THEN a ELSE b
MaxOf(S) == CHOOSE x \in S : \A y \in S : y <= x
MinOf(S) == CHOOSE x \in S : \A y \in S : x <= y
Range(seq) == {seq[i] : i \in 1..Len(seq)}

----------------------------------------------------------------------------
(* Rationals num / (den * 2^exp) with num, den > 0. *)

Rat(n, d, e) == [num |-> n, den |-> d, exp |-> e]
OneRat == Rat(1, 1, 0)
ShiftCap == 20

\* a <= b; the power of two is capped, which is exact while
\* num * den < 2^ShiftCap
LeqRat(a, b) ==
    IF a.exp >= b.exp
    THEN a.num * b.den <= b.num * a.den * Pow2(Min2(a.exp - b.exp, ShiftCap))
    ELSE a.num * b.den * Pow2(Min2(b.exp - a.exp, ShiftCap)) <= b.num * a.den

\* the rational t times the fixed-point number x
ScaleBy(t, x) == RoundDiv(x * t.num, t.den * Pow2(t.exp))

----------------------------------------------------------------------------
(* make_exponential_temperature *)

DoubleMaxExp == 1024
FloorTemperature == Rat(1, 100, 0)

\* math.exp(n * alpha) raises OverflowError when the result exceeds the
\* largest double, 2^DoubleMaxExp
ExpOverflows(alpha, n) == alpha * n > DoubleMaxExp

exponential_temperature(initial_temperature, alpha, n) ==
    IF ExpOverflows(alpha, n)
    THEN FloorTemperature
    ELSE Rat(initial_temperature.num, initial_temperature.den, alpha * n)

----------------------------------------------------------------------------
(* at_least_n_times_exploration and argmax *)

optimistic_reward == 1
min_n == 1

RECURSIVE argmax_from(_, _, _, _)
argmax_from(seq, uf, i, best) ==
    IF i > Len(seq) THEN seq[best]
    ELSE argmax_from(seq, uf, i + 1, IF uf[i] > uf[best] THEN i ELSE best)

\* the first element of seq with the greatest value of uf (uf is indexed
\* like seq)
argmax(seq, uf) == argmax_from(seq, uf, 2, 1)

\* a slip that also overrides an action visited exactly min_n times
overridden_utilities_inclusive(opt, minN, acts, utilities, action_counter) ==
    [i \in 1..Len(acts) |->
        IF action_counter[acts[i]] <= minN THEN opt ELSE utilities[acts[i]]]

\* the utilities after the override loop, indexed like acts
overridden_utilities(opt, minN, acts, utilities, action_counter) ==
    [i \in 1..Len(acts) |->
        IF action_counter[acts[i]] < minN THEN opt ELSE utilities[acts[i]]]

at_least_n_times_exploration(opt, minN, acts, utilities, action_counter) ==
    argmax(acts, overridden_utilities(opt, minN, acts, utilities, action_counter))

----------------------------------------------------------------------------
(* Double-precision arithmetic for boltzmann_exploration.                  *)
(*                                                                         *)
(* Every float the function handles on the inputs below (weights, their    *)
(* sum, probabilities, running total, the draw) is a multiple of 2^-56     *)
(* below 32.  Such a number is held exactly as an integer count of units   *)
(* of 2^-56, written in three limbs <<a2, a1, a0>> of 24 bits, most        *)
(* significant first.  An operation computes the exact result and rounds   *)
(* it to 53 significant bits, ties to even, as IEEE 754 does.              *)

Limb == Pow2(12) * Pow2(12)

BigZero == <<0, 0, 0>>
BigUnit == <<0, 0, 1>>
\* 1.0 in units of 2^-56
BigOne == <<Pow2(8), 0, 0>>
\* 2^53 units: numbers from here on have more than 53 significant bits
BigMantissaEnd == <<Pow2(5), 0, 0>>

BigNorm(a2, a1, a0) ==
    LET c0 == a0 \div Limb
        b1 == a1 + c0
        c1 == b1 \div Limb
    IN  <<a2 + c1, b1 % Limb, a0 % Limb>>

BigAdd(x, y) == BigNorm(x[1] + y[1], x[2] + y[2], x[3] + y[3])

\* x - y for x >= y
BigSub(x, y) ==
    LET d0 == x[3] - y[3]
        w0 == IF d0 < 0 THEN 1 ELSE 0
        d1 == x[2] - y[2] - w0
        w1 == IF d1 < 0 THEN 1 ELSE 0
    IN  <<x[1] - y[1] - w1, d1 + w1 * Limb, d0 + w0 * Limb>>

BigGeq(x, y) ==
    \/ x[1] > y[1]
    \/ x[1] = y[1] /\ x[2] > y[2]
    \/ x[1] = y[1] /\ x[2] = y[2] /\ x[3] >= y[3]

BigOdd(x) == x[3] % 2 = 1

BigDouble(x) == BigAdd(x, x)

BigHalf(x) ==
    <<x[1] \div 2,
      (x[2] + (x[1] % 2) * Limb) \div 2,
      (x[3] + (x[2] % 2) * Limb) \div 2>>

RECURSIVE BigShiftLeft(_, _)
BigShiftLeft(x, s) == IF s = 0 THEN x ELSE BigShiftLeft(BigDouble(x), s - 1)

RECURSIVE BigShiftRight(_, _)
BigShiftRight(x, s) == IF s = 0 THEN x ELSE BigShiftRight(BigHalf(x), s - 1)

\* n rounded to 53 significant bits, ties to even; guard is the last bit
\* dropped so far, sticky says whether a 1 was dropped before it, s counts
\* the bits dropped
RECURSIVE RoundToDouble(_, _, _, _)
RoundToDouble(n, guard, sticky, s) ==
    IF BigGeq(n, BigMantissaEnd)
    THEN RoundToDouble(BigHalf(n), IF BigOdd(n) THEN 1 ELSE 0,
                       sticky \/ guard = 1, s + 1)
    ELSE LET up == guard = 1 /\ (sticky \/ BigOdd(n))
         IN  BigShiftLeft(IF up THEN BigAdd(n, BigUnit) ELSE n, s)

\* the float sum x + y
FloatAdd(x, y) == RoundToDouble(BigAdd(x, y), 0, FALSE, 0)

\* binary long division: <<quotient, remainder>> of (rem * 2^steps) by d,
\* for rem < d
RECURSIVE LongDivide(_, _, _, _)
LongDivide(rem, d, quot, steps) ==
    IF steps = 0 THEN <<quot, rem>>
    ELSE LET r2 == BigDouble(rem)
             q2 == BigDouble(quot)
             bit == IF BigGeq(r2, d) THEN 1 ELSE 0
             \* q2 is even: the new bit is its lowest
             q3 == <<q2[1], q2[2], q2[3] + bit>>
         IN  IF q3[3] % 2 = 1
             THEN LongDivide(BigSub(r2, d), d, q3, steps - 1)
             ELSE LongDivide(r2, d, q3, steps - 1)

\* the float quotient w / d for 2^-4 <= w / d < 1: the quotient is taken
\* to 60 fractional bits, rounded with the remainder as sticky bit, and
\* brought back to units of 2^-56
FloatDiv(w, d) ==
    LET qr == LongDivide(w, d, BigZero, 60)
    IN  BigShiftRight(RoundToDouble(qr[1], 0, qr[2] # BigZero, 0), 4)

----------------------------------------------------------------------------
(* boltzmann_exploration *)

RECURSIVE GCD(_, _)
GCD(a, b) == IF b = 0 THEN a ELSE GCD(b, a % b)

\* math.exp(p / q), as the C library computes it, for the arguments that
\* occur; k is the fraction in lowest terms
math_exp(p, q) ==
    LET g == GCD(p, q)
        k == <<p \div g, q \div g>>
    IN  CASE k = <<0, 1>> -> <<256, 0, 0>>                   \* 1.0
          [] k = <<1, 20>> -> <<269, 2103874, 2769712>>      \* 1.0512710963760241
          [] k = <<1, 10>> -> <<282, 15498037, 10489152>>    \* 1.1051709180756477
          [] k = <<1, 4>> -> <<328, 11920323, 15210592>>     \* 1.2840254166877414
          [] k = <<1, 2>> -> <<422, 1218785, 14707136>>      \* 1.6487212707001282
          [] k = <<1, 1>> -> <<695, 14766434, 9104672>>      \* 2.718281828459045
          [] k = <<2, 1>> -> <<1891, 10038837, 3632000>>     \* 7.38905609893065

\* temperature = max(temperature, 0.01); temperatures are rationals
floored_temperature(temperature) ==
    IF LeqRat(temperature, FloorTemperature)
    THEN FloorTemperature
    ELSE temperature

\* sum(utilities): the floats added from left to right
RECURSIVE float_sum(_, _)
float_sum(seq, n) ==
    IF n = 0 THEN BigZero ELSE FloatAdd(float_sum(seq, n - 1), seq[n])

\* line 36: the weights, indexed like acts.  (u - _min) / (_max - _min) is
\* exact for the utilities drawn here, so the argument of math.exp is the
\* double nearest to the fraction below
boltzmann_weights(acts, utilities, temperature) ==
    LET us == [i \in 1..Len(acts) |-> utilities[acts[i]]]
        t == floored_temperature(temperature)
        hi == MaxOf(Range(us))
        lo == MinOf(Range(us))
    IN  [i \in 1..Len(acts) |->
            math_exp((us[i] - lo) * t.den * Pow2(t.exp), (hi - lo) * t.num)]

\* line 37: the probabilities, indexed like acts
boltzmann_probs(acts, utilities, temperature) ==
    LET ws == boltzmann_weights(acts, utilities, temperature)
        total == float_sum(ws, Len(ws))
    IN  [i \in 1..Len(acts) |-> FloatDiv(ws[i], total)]

\* lines 41-43: the index the while loop stops at, counted from 1, or 0 when
\* probs[i] is read past the end (IndexError)
RECURSIVE boltzmann_scan(_, _, _, _)
boltzmann_scan(probs, r, i, tot) ==
    IF i <= Len(probs) /\ BigGeq(r, tot)
    THEN IF i + 1 > Len(probs) THEN 0
         ELSE boltzmann_scan(probs, r, i + 1, FloatAdd(tot, probs[i + 1]))
    ELSE i

\* the action returned for the draw r when the utilities are not all equal
boltzmann_exploration(acts, utilities, temperature, r) ==
    LET probs == boltzmann_probs(acts, utilities, temperature)
        i == boltzmann_scan(probs, r, 1, probs[1])
    IN  IF i = 0 THEN "IndexError" ELSE acts[i]

utilities_all_equal(acts, utilities) ==
    \A i, j \in 1..Len(acts) : utilities[acts[i]] = utilities[acts[j]]

----------------------------------------------------------------------------
(* QLearner *)

discount_factor == Rat(1, 2, 0)

actions(state) == IF state = "sT" THEN <<>> ELSE <<"a1", "a2">>

temperature_function(n) ==
    exponential_temperature(schedule.initial, schedule.alpha, n)

learning_rate(n) ==
    LET t == temperature_function(n)
    IN  IF LeqRat(OneRat, t) THEN OneRat ELSE t

\* the exploration function the learner was built with:
\* make_at_least_n_times(optimistic_reward, min_n), on fixed-point utilities
exploration_function(acts, utilities, action_counter) ==
    at_least_n_times_exploration(optimistic_reward * Scale, min_n, acts,
                                 utilities, action_counter)

\* a slip that counts a pair only when it has an action
IncCounter_skip_none(cnt, s, a) ==
    [cnt EXCEPT ![s][a] = IF a = None THEN @ ELSE @ + 1]

\* self.counter[s][a] += 1
IncCounter(cnt, s, a) == [cnt EXCEPT ![s][a] = @ + 1]

\* a slip that blends the terminal reward into the old value
TerminalValue_blended(old, reward) == old + RoundDiv(reward * Scale - old, 2)

\* self.Q[self.last_state][self.last_action] = reward
TerminalValue(old, reward) == reward * Scale

\* a slip that takes the learning rate of the count before the increment
td_update_stale_count(q, n, r, best) ==
    q + ScaleBy(learning_rate(n - 1),
                r * Scale + ScaleBy(discount_factor, best) - q)

\* TD_QLearner.update_rule: the new Q[s][a]; best is max(Q[cs].values())
td_update(q, n, r, best) ==
    q + ScaleBy(learning_rate(n), r * Scale + ScaleBy(discount_factor, best) - q)

\* a slip that leaves the discount out of the bootstrapped term
sarsa_update_undiscounted(q, n, r, next) ==
    q + ScaleBy(learning_rate(n), r * Scale + next - q)

\* SARSA_Learner.update_rule: the new Q[s][a]; next is Q[cs][ca]
sarsa_update(q, n, r, next) ==
    q + ScaleBy(learning_rate(n), r * Scale + ScaleBy(discount_factor, next) - q)

\* a slip that counts every reward as the end of a trial
set_reward_counts_all(reward, terminal) ==
    /\ calls < MaxCalls
    /\ last_reward' = <<reward>>
    /\ trials' = trials + 1
    /\ IF terminal
       THEN /\ Q' = [Q EXCEPT ![last_state][last_action] =
                                   TerminalValue(@, reward)]
            /\ Qkeys' = [Qkeys EXCEPT ![last_state] = @ \cup {last_action}]
       ELSE UNCHANGED <<Q, Qkeys>>
    /\ UNCHANGED <<kind, schedule, counter, last_state, last_action, stepsFrom>>
    /\ terminals' = IF terminal THEN terminals + 1 ELSE terminals
    /\ calls' = calls + 1
    /\ last_call' = [op |-> "set_reward", reward |-> reward,
                     terminal |-> terminal, s |-> last_state,
                     a |-> last_action, before |-> Q[last_state][last_action],
                     result |-> None]

set_reward(reward, terminal) ==
    /\ calls < MaxCalls
    /\ last_reward' = <<reward>>
    /\ IF terminal
       THEN /\ trials' = trials + 1
            /\ Q' = [Q EXCEPT ![last_state][last_action] =
                                   TerminalValue(@, reward)]
            /\ Qkeys' = [Qkeys EXCEPT ![last_state] = @ \cup {last_action}]
       ELSE UNCHANGED <<trials, Q, Qkeys>>
    /\ UNCHANGED <<kind, schedule, counter, last_state, last_action, stepsFrom>>
    /\ terminals' = IF terminal THEN terminals + 1 ELSE terminals
    /\ calls' = calls + 1
    /\ last_call' = [op |-> "set_reward", reward |-> reward,
                     terminal |-> terminal, s |-> last_state,
                     a |-> last_action, before |-> Q[last_state][last_action],
                     result |-> None]

step(percept) ==
    LET s == last_state
        a == last_action
        state == percept
        acts == actions(state)
        \* reading utilities[x] for every x in actions creates the keys
        keys1 == IF Len(acts) > 0
                 THEN [Qkeys EXCEPT ![state] = @ \cup Range(acts)]
                 ELSE Qkeys
        current_action ==
            IF Len(acts) > 0
            THEN exploration_function(acts, Q[state], counter[state])
            ELSE None
        \* the target Q[s][a] of the augmented assignment is read first
        keys2 == [keys1 EXCEPT ![s] = @ \cup {a}]
        n == counter[s][a] + 1
        emptyMax == kind = "TD" /\ keys2[state] = {}
        noReward == last_reward = <<>>
        \* SARSA reads Q[cs][ca], creating the key
        keys3 == IF kind = "SARSA"
                 THEN [keys2 EXCEPT ![state] = @ \cup {current_action}]
                 ELSE keys2
        r == last_reward[1]
        newq == IF kind = "TD"
                THEN td_update(Q[s][a], n, r,
                               MaxOf({Q[state][k] : k \in keys2[state]}))
                ELSE sarsa_update(Q[s][a], n, r, Q[state][current_action])
        outcome == IF s = None THEN current_action
                   ELSE IF emptyMax THEN "ValueError"
                   ELSE IF noReward THEN "TypeError"
                   ELSE current_action
        raised == outcome \in {"ValueError", "TypeError"}
    IN  /\ calls < MaxCalls
        /\ IF s = None
           THEN /\ Qkeys' = keys1
                /\ UNCHANGED <<Q, counter>>
           ELSE /\ counter' = IncCounter(counter, s, a)
                /\ Qkeys' = IF emptyMax THEN keys2 ELSE keys3
                /\ Q' = IF raised THEN Q ELSE [Q EXCEPT ![s][a] = newq]
        /\ IF raised
           THEN UNCHANGED <<last_state, last_action>>
           ELSE /\ last_state' = state
                /\ last_action' = current_action
        /\ stepsFrom' = [stepsFrom EXCEPT ![s][a] = @ + 1]
        /\ UNCHANGED <<kind, schedule, last_reward, trials, terminals>>
        /\ calls' = calls + 1
        /\ last_call' = [op |-> "step", percept |-> percept, s |-> s, a |-> a,
                         before |-> Q[s][a], result |-> outcome,
                         next |-> current_action]

Schedules == {[initial |-> Rat(1, 1, 0), alpha |-> 0],
              [initial |-> Rat(2, 1, 0), alpha |-> 1]}

InitLearner ==
    /\ kind \in {"TD", "SARSA"}
    /\ schedule \in Schedules
    /\ Q = [s \in StateKeys |-> [a \in ActKeys |-> 0]]
    /\ Qkeys = [s \in StateKeys |-> {}]
    /\ counter = [s \in StateKeys |-> [a \in ActKeys |-> 0]]
    /\ last_state = None
    /\ last_action = None
    /\ last_reward = <<>>
    /\ trials = 0
    /\ last_call = [op |-> "init"]
    /\ stepsFrom = [s \in StateKeys |-> [a \in ActKeys |-> 0]]
    /\ terminals = 0
    /\ calls = 0

Init ==
    /\ InitLearner
    /\ temp = Idle
    /\ boltz = Idle
    /\ aln = Idle

Step == \E percept \in States : step(percept) /\ UNCHANGED <<temp, boltz, aln>>

SetReward ==
    \E reward \in Rewards, terminal \in BOOLEAN :
        set_reward(reward, terminal) /\ UNCHANGED <<temp, boltz, aln>>

Next == Step \/ SetReward

Spec == Init /\ [][Next]_vars

----------------------------------------------------------------------------
(* Properties of the learner. *)

Raised(result) == result \in {"ValueError", "TypeError"}
IsStep(c) == c.op = "step"
IsSetReward(c) == c.op = "set_reward"
Pairs == StateKeys \X ActKeys

\* C1: set_reward(r, terminal=True) leaves Q[last_state][last_action] equal
\* to exactly r, whatever it held before, and adds exactly 1 to trials.
C1_TerminalOverwrite ==
    [][(IsSetReward(last_call') /\ last_call'.terminal)
         => /\ Q'[last_state][last_action] = last_call'.reward * Scale
            /\ last_action \in Qkeys'[last_state]
            /\ trials' = trials + 1]_vars

\* a terminal reward has replaced a different, non-zero utility of a real pair
C1_Witness ==
    /\ IsSetReward(last_call) /\ last_call.terminal
    /\ last_state # None
    /\ last_call.before # 0
    /\ last_call.before # last_call.reward * Scale
    /\ Q[last_state][last_action] = last_call.reward * Scale

\* C3: counter[s][a] is the number of step calls made while (s, a) was the
\* stored pair; such a step adds exactly 1 to that counter and to no other,
\* no counter ever decreases, and set_reward changes no counter.
C3_CounterCountsSteps ==
    /\ [](\A s \in States, a \in ActKeys : counter[s][a] = stepsFrom[s][a])
    /\ [][/\ \A p \in Pairs : counter'[p[1]][p[2]] >= counter[p[1]][p[2]]
          /\ IsSetReward(last_call') => counter' = counter
          /\ (IsStep(last_call') /\ last_state # None) =>
                \A p \in Pairs :
                    counter'[p[1]][p[2]] =
                        counter[p[1]][p[2]] +
                        (IF p = <<last_state, last_action>> THEN 1 ELSE 0)
         ]_vars

\* a pair without an action and a pair with one have both been left, one of
\* them twice, with rewards given in between
C3_Witness ==
    /\ \E s \in States : counter[s][None] >= 1
    /\ \E s \in States, a \in ActionNames : counter[s][a] >= 2
    /\ terminals >= 1

\* C7: a SARSA step with pending pair (s, a) and reward r sets Q[s][a] to
\* Q[s][a] + lr * (r + discount * Q[state][current_action] - Q[s][a]) with
\* lr = learning_rate(counter[s][a]) read after the increment, state the
\* state of this step and current_action the action it returns; with lr = 1,
\* Q[s][a] = 0, Q[state][current_action] = 2, r = 1 and discount 1/2 that is 2.
C7_SarsaUpdate ==
    [][(IsStep(last_call') /\ kind = "SARSA" /\ last_state # None
            /\ last_reward # <<>>)
         => LET s == last_state
                a == last_action
                r == last_reward[1] * Scale
                next == Q[last_call'.percept][last_call'.result]
                lr == learning_rate(counter'[s][a])
                target == r + (next * discount_factor.num)
                                  \div discount_factor.den
            IN  /\ last_action' = last_call'.result
                /\ last_state' = last_call'.percept
                /\ Q'[s][a] =
                      Q[s][a] + ((target - Q[s][a]) * lr.num)
                                    \div (lr.den * Pow2(lr.exp))
                /\ (lr = OneRat /\ Q[s][a] = 0 /\ next = 2 * Scale
                        /\ last_reward = <<1>>)
                      => Q'[s][a] = 2 * Scale
       ]_vars

\* the worked example has happened: lr = 1, Q[s][a] was 0, the reward was 1,
\* the action chosen in the new state has utility 2 and Q[s][a] is now 2
C7_Witness ==
    /\ IsStep(last_call) /\ kind = "SARSA"
    /\ last_call.s # None /\ last_call.s # last_state
    /\ last_call.before = 0
    /\ last_reward = <<1>>
    /\ last_action = last_call.result /\ last_action # None
    /\ learning_rate(counter[last_call.s][last_call.a]) = OneRat
    /\ Q[last_state][last_action] = 2 * Scale
    /\ Q[last_call.s][last_call.a] = 2 * Scale

\* C8: trials is the number of set_reward calls made with terminal=True;
\* step never changes trials, and set_reward with terminal=False changes
\* only last_reward.
C8_TrialsAndFrame ==
    /\ [](trials = terminals)
    /\ [][/\ IsStep(last_call') => trials' = trials
          /\ (IsSetReward(last_call') /\ ~last_call'.terminal)
                => /\ last_reward' = <<last_call'.reward>>
                   /\ UNCHANGED <<Q, Qkeys, counter, trials, last_state,
                                  last_action>>
         ]_vars

\* a non-terminal reward replaced a different reward after a trial ended and
\* after utilities were learnt
C8_Witness ==
    /\ IsSetReward(last_call) /\ ~last_call.terminal
    /\ trials >= 1
    /\ last_state # None
    /\ Q[last_state][last_action] # 0
    /\ \E s \in States, a \in ActKeys : counter[s][a] >= 1

\* C9: a step made while last_state is None changes no utility and no
\* counter; a step made with a pending pair (s, a) changes the utility of
\* (s, a) only and the counter of (s, a) only, the counter first: the update
\* uses the learning rate of the incremented count.
C9_DeferredUpdate ==
    [][IsStep(last_call') =>
         IF last_state = None
         THEN Q' = Q /\ counter' = counter
         ELSE LET s == last_state
                  a == last_action
                  ca == last_call'.next
                  cs == last_call'.percept
                  lr == learning_rate(counter[s][a] + 1)
                  best == MaxOf({Q[cs][k] : k \in Qkeys'[cs]})
                  boot == IF kind = "TD" THEN best ELSE Q[cs][ca]
                  target == last_reward[1] * Scale
                              + (boot * discount_factor.num)
                                    \div discount_factor.den
              IN  /\ \A p \in Pairs \ {<<s, a>>} :
                        /\ Q'[p[1]][p[2]] = Q[p[1]][p[2]]
                        /\ counter'[p[1]][p[2]] = counter[p[1]][p[2]]
                  /\ counter'[s][a] = counter[s][a] + 1
                  /\ IF Raised(last_call'.result)
                     THEN Q'[s][a] = Q[s][a]
                     ELSE Q'[s][a] =
                            Q[s][a] + ((target - Q[s][a]) * lr.num)
                                          \div (lr.den * Pow2(lr.exp))
      ]_vars

\* a TD step has updated a pending pair for the second time, with a learning
\* rate below 1, and changed its utility
C9_Witness ==
    /\ IsStep(last_call) /\ kind = "TD"
    /\ last_call.s # None
    /\ ~Raised(last_call.result)
    /\ counter[last_call.s][last_call.a] = 2
    /\ learning_rate(2) # OneRat
    /\ Q[last_call.s][last_call.a] # last_call.before

\* C2 as claimed: when a TD step updates a pending pair and the successor
\* state has no recorded utilities, the maximum counts as 0: the step
\* returns and Q[s][a] becomes Q[s][a] + lr * (r + discount * 0 - Q[s][a]).
C2_EmptyMaxIsZero ==
    [][(IsStep(last_call') /\ kind = "TD" /\ last_state # None
            /\ last_reward # <<>>
            /\ actions(last_call'.percept) = <<>>
            /\ Qkeys[last_call'.percept] = {})
         => LET s == last_state
                a == last_action
                lr == learning_rate(counter[s][a] + 1)
            IN  /\ ~Raised(last_call'.result)
                /\ Q'[s][a] =
                      Q[s][a] + ((last_reward[1] * Scale - Q[s][a]) * lr.num)
                                    \div (lr.den * Pow2(lr.exp))
       ]_vars

\* C10 as claimed: a terminal set_reward keeps last_state and last_action,
\* and the step that follows it increments the counter of that pair, applies
\* the update rule to it with the terminal reward as r, and then stores the
\* new state and action.
C10_StalePairUpdated ==
    [][/\ (IsSetReward(last_call') /\ last_call'.terminal)
            => UNCHANGED <<last_state, last_action>>
       /\ (IsStep(last_call') /\ IsSetReward(last_call) /\ last_call.terminal
              /\ last_state # None)
            => LET s == last_state
                   a == last_action
                   ca == last_call'.next
                   cs == last_call'.percept
                   lr == learning_rate(counter[s][a] + 1)
               IN  /\ counter'[s][a] = counter[s][a] + 1
                   /\ ~Raised(last_call'.result)
                   /\ LET boot == IF kind = "TD"
                                  THEN MaxOf({Q[cs][k] : k \in Qkeys'[cs]})
                                  ELSE Q[cs][ca]
                          target == last_call.reward * Scale
                                      + (boot * discount_factor.num)
                                            \div discount_factor.den
                      IN  Q'[s][a] =
                            Q[s][a] + ((target - Q[s][a]) * lr.num)
                                          \div (lr.den * Pow2(lr.exp))
                   /\ last_state' = cs
                   /\ last_action' = ca
      ]_vars

\* what the code does in the case C10 leaves out: the step after a terminal
\* reward fails only in max() over the empty utilities of a TD successor
C10_FailsOnlyOnEmptyMax ==
    [][(IsStep(last_call') /\ IsSetReward(last_call) /\ last_call.terminal
            /\ last_state # None /\ Raised(last_call'.result))
         => /\ kind = "TD"
            /\ last_call'.result = "ValueError"
            /\ Qkeys'[last_call'.percept] = {}
      ]_vars

----------------------------------------------------------------------------
(* The pure functions, each applied to inputs drawn from bounded sets. *)

LearnerUnused ==
    /\ InitLearner
    /\ kind = "TD"
    /\ schedule = [initial |-> Rat(1, 1, 0), alpha |-> 0]

\* the temperature schedule at two trial counts n1 < n2
MaxTrial == 4
Initials == {Rat(1, 1, 0), Rat(2, 1, 0), Rat(1, 2, 0)}
Alphas == {0, 1, 300, 512}

InitTemperature ==
    /\ LearnerUnused
    /\ boltz = Idle
    /\ aln = Idle
    /\ \E i \in Initials, al \in Alphas, n1, n2 \in 0..MaxTrial :
          /\ n1 < n2
          /\ temp = [op |-> "inputs", initial |-> i, alpha |-> al,
                     n1 |-> n1, n2 |-> n2]

EvalTemperature ==
    /\ temp.op = "inputs"
    /\ temp' = [temp EXCEPT !.op = "evaluated"] @@
               [t1 |-> exponential_temperature(temp.initial, temp.alpha, temp.n1),
                t2 |-> exponential_temperature(temp.initial, temp.alpha, temp.n2),
                overflow1 |-> ExpOverflows(temp.alpha, temp.n1),
                overflow2 |-> ExpOverflows(temp.alpha, temp.n2)]
    /\ UNCHANGED <<learnerVars, boltz, aln>>

SpecTemperature == InitTemperature /\ [][EvalTemperature]_vars

\* at_least_n_times_exploration
ExploreActions == {"a1", "a2", "a3"}
ActionLists == {<<"a1">>, <<"a1", "a2">>, <<"a2", "a1">>, <<"a3", "a1", "a2">>}
MaxUtility == 2
MaxVisits == 2
OptimisticRewards == {0, 2}
MinVisits == {1, 2}

InitOptimistic ==
    /\ LearnerUnused
    /\ temp = Idle
    /\ boltz = Idle
    /\ \E acts \in ActionLists, o \in OptimisticRewards, m \in MinVisits,
          u \in [ExploreActions -> 0..MaxUtility],
          c \in [ExploreActions -> 0..MaxVisits] :
          aln = [op |-> "inputs", acts |-> acts, optimistic |-> o,
                 min_n |-> m, utilities |-> u, action_counter |-> c]

Explore ==
    /\ aln.op = "inputs"
    /\ aln' = [aln EXCEPT !.op = "chosen"] @@
              [result |-> at_least_n_times_exploration(
                              aln.optimistic, aln.min_n, aln.acts,
                              aln.utilities, aln.action_counter)]
    /\ UNCHANGED <<learnerVars, temp, boltz>>

SpecOptimistic == InitOptimistic /\ [][Explore]_vars

\* boltzmann_exploration
BoltzActionLists == {<<"a1", "a2">>, <<"a1", "a2", "a3">>}
BoltzUtilities == {0, 1, 2}
Temperatures == {Rat(1, 2, 0), Rat(1, 1, 0), Rat(2, 1, 0), Rat(10, 1, 0)}

\* values of random.random(), multiples of 2^-53 in [0, 1): the eighths
\* and the four greatest values
Draws ==
    {<<Pow2(5) * k, 0, 0>> : k \in 0..7}
        \cup {<<Pow2(8) - 1, Limb - 1, Limb - 8 * j>> : j \in 1..4}

InitBoltzmann ==
    /\ LearnerUnused
    /\ temp = Idle
    /\ aln = Idle
    /\ \E acts \in BoltzActionLists, t \in Temperatures,
          u \in [ExploreActions -> BoltzUtilities] :
          boltz = [op |-> "inputs", acts |-> acts, utilities |-> u,
                   temperature |-> t]

\* line 34: all utilities equal, random.choice(actions)
BoltzmannChoice ==
    /\ boltz.op = "inputs"
    /\ utilities_all_equal(boltz.acts, boltz.utilities)
    /\ \E x \in Range(boltz.acts) :
          boltz' = [boltz EXCEPT !.op = "chosen"] @@
                   [branch |-> "choice", result |-> x]
    /\ UNCHANGED <<learnerVars, temp, aln>>

\* lines 36-44: one draw r = random.random() and the scan
BoltzmannSample ==
    /\ boltz.op = "inputs"
    /\ ~utilities_all_equal(boltz.acts, boltz.utilities)
    /\ \E r \in Draws :
          boltz' = [boltz EXCEPT !.op = "chosen"] @@
                   [branch |-> "sample", r |-> r,
                    result |-> boltzmann_exploration(
                                   boltz.acts, boltz.utilities,
                                   boltz.temperature, r)]
    /\ UNCHANGED <<learnerVars, temp, aln>>

NextBoltzmann == BoltzmannChoice \/ BoltzmannSample

SpecBoltzmann == InitBoltzmann /\ [][NextBoltzmann]_vars

----------------------------------------------------------------------------
(* Properties of the pure functions. *)

\* C4 as claimed: the schedule is non-increasing, temperature(n2) <=
\* temperature(n1) for n2 > n1 >= 0, also where math.exp overflows and the
\* floor 0.01 is returned.
C4_NonIncreasing ==
    temp.op = "evaluated" => LeqRat(temp.t2, temp.t1)

\* what the code does: the schedule is non-increasing as long as math.exp
\* does not overflow at the later count
C4_NonIncreasingBeforeOverflow ==
    (temp.op = "evaluated" /\ ~temp.overflow2) => LeqRat(temp.t2, temp.t1)

\* C5 as claimed: boltzmann_exploration returns a member of the actions for
\* every draw and every utility assignment.
C5_ReturnsMember ==
    boltz.op = "chosen" => boltz.result \in Range(boltz.acts)

\* what the code does: it fails only when the running total of the rounded
\* probabilities ends below 1 and the draw is not below that total
C5_MemberOrOverrun ==
    boltz.op = "chosen" =>
        \/ boltz.result \in Range(boltz.acts)
        \/ /\ boltz.branch = "sample"
           /\ LET probs == boltzmann_probs(boltz.acts, boltz.utilities,
                                           boltz.temperature)
              IN  /\ BigGeq(boltz.r, float_sum(probs, Len(probs)))
                  /\ ~BigGeq(float_sum(probs, Len(probs)), BigOne)

EffectiveUtility(x) ==
    IF aln.action_counter[x] < aln.min_n
    THEN aln.optimistic
    ELSE aln.utilities[x]

\* C6: the optimistic-count exploration returns one of the actions, and no
\* action has a greater effective utility, which is optimistic_reward for an
\* action visited fewer than min_n times and its table utility otherwise.
C6_MaximalEffectiveUtility ==
    aln.op = "chosen" =>
        /\ aln.result \in Range(aln.acts)
        /\ \A x \in Range(aln.acts) :
              EffectiveUtility(x) <= EffectiveUtility(aln.result)

\* the action returned is under-visited and wins by its optimistic reward
\* over an action of greater table utility that was visited often enough
C6_Witness ==
    /\ aln.op = "chosen"
    /\ Len(aln.acts) >= 2
    /\ aln.action_counter[aln.result] < aln.min_n
    /\ \E x \in Range(aln.acts) :
          /\ aln.action_counter[x] >= aln.min_n
          /\ aln.utilities[x] > aln.utilities[aln.result]
          /\ aln.utilities[x] < aln.optimistic

====
